---- MODULE Spec2Model ----
(***************************************************************************)
(* Model of the athenaeum event queue: the `events` table                  *)
(* (database/models.py), the queue operations of EventProcessor            *)
(* (agent/event_processor.py) and the control loop of Worker               *)
(* (agent/worker_pool.py).                                                 *)
(*                                                                         *)
(* Time is one clock in seconds, read by NOW() and datetime.utcnow().      *)
(* A worker holds the ORM object returned by claim_event; the session is   *)
(* built by sessionmaker(autocommit=False, autoflush=False), so it keeps   *)
(* expire_on_commit: the object is expired by the commit inside            *)
(* claim_event, reloaded by the first attribute access afterwards          *)
(* (worker_pool.py line 108) and then keeps those values until the next    *)
(* commit.  The unit of work writes, at commit, the columns whose new      *)
(* value differs from the loaded one, in `UPDATE events ... WHERE id = ?`. *)
(*                                                                         *)
(* A claim is two steps, the UPDATE ... FOR UPDATE SKIP LOCKED that locks  *)
(* the row and the commit that publishes it; complete_event and fail_event *)
(* wait for a row lock, so each is one step.  terminated, overrun and      *)
(* nclaims are history variables: no operation reads them, except the cap  *)
(* MaxClaims on the claims counted in nclaims, which keeps behaviours      *)
(* finite.                                                                 *)
(*                                                                         *)
(* Spec is the queue with its workers and a store that never fails.        *)
(* SpecFair adds weak fairness of the worker threads, SpecLate lets the    *)
(* clock run one lease duration longer, SpecStoreError adds the outcomes   *)
(* of a failing store call, and SpecBackoff applies fail_event in a        *)
(* processor constructed with a larger max_retry_count.                    *)
(*                                                                         *)
(* SpecPool is WorkerPool with its Worker threads, driven through start()  *)
(* and stop(timeout); SpecService is the pool run as a service, start()    *)
(* then run_forever() until a signal, and SpecServiceFair adds weak        *)
(* fairness of the main thread and of the clock.  In these three the       *)
(* queue's rows are left out: backlog counts the events the store has for  *)
(* the threads, and each queue call of a thread is one of its outcomes;    *)
(* nstarts and the field nstops are history.                               *)
(***************************************************************************)
EXTENDS Integers, Sequences, FiniteSets, TLC

\* ---------------------------------------------------------------- bounds
MaxEvents == 2
\* the clock stops at this time, in seconds
MaxTime == 600
\* the time at which the clock stops in the behaviours that run one more
\* lease duration
MaxTimeLate == 900
\* claims executed in one behaviour
MaxClaims == 4
\* the largest max_retry_count an EventProcessor is constructed with
RetryLimit == 6

\* ------------------------------------------------------------- constants
\* EventProcessor.__init__ defaults, used by Worker.run
visibility_timeout == 300
max_retry_count == 3
\* fail_event: min(300, 2 ** retry_count * 10)
backoff_cap == 300
backoff_base == 10
\* SQL NULL / Python None in a nullable column
NULL == -1

\* worker-0 and worker-1, the names WorkerPool.start gives its workers
Workers == {0, 1}
\* the clock advances by one of these amounts at a time
Delays == {visibility_timeout}
ErrorMessages == {"Exception: boom"}
EventTypes == {"app_mention"}
Payloads == {"payload"}

VARIABLES
    events,      \* the committed rows of table `events`; the id is the index
    now,         \* the clock
    pc,          \* where each worker is in Worker.run
    ev,          \* id of the event the worker's claim selected (0: none)
    lease,       \* visibility_timeout computed by the worker's claim
    snap,        \* attribute values loaded in the worker's ORM object
    terminated,  \* history: ids whose row has had status completed or failed
    overrun,     \* history: some worker held an event beyond its lease deadline
    nclaims,     \* history: number of claims executed, per event id
    size,        \* WorkerPool.size
    workers,     \* WorkerPool.workers: the threads of the pool, in order
    threads,     \* every Worker thread created so far
    shutdown_requested,  \* WorkerPool._shutdown_requested
    stack,       \* the pool calls in progress in the main thread, innermost first
    nstarts,     \* history: number of WorkerPool.start() calls
    backlog      \* the events in the store for the pool's threads to claim

\* the queue and its workers, except the clock
qvars == <<events, pc, ev, lease, snap, terminated, overrun, nclaims>>

\* the worker pool and its threads
pvars == <<size, workers, threads, shutdown_requested, stack, nstarts, backlog>>

vars == <<events, now, pc, ev, lease, snap, terminated, overrun, nclaims,
          size, workers, threads, shutdown_requested, stack, nstarts, backlog>>

\* ------------------------------------------------------------------ rows
EventRetried(id, event_type, payload, t) ==
    [id |-> id, event_type |-> event_type, payload |-> payload,
     status |-> "pending", visibility_timeout |-> NULL, claimed_by |-> NULL,
     retry_count |-> 1, error_message |-> "", created_at |-> t,
     processed_at |-> NULL]

\* database/models.py, class Event
Event(id, event_type, payload, t) ==
    [id |-> id, event_type |-> event_type, payload |-> payload,
     status |-> "pending", visibility_timeout |-> NULL, claimed_by |-> NULL,
     retry_count |-> 0, error_message |-> "", created_at |-> t,
     processed_at |-> NULL]

\* the worker holds no loaded object
NoEvent ==
    [id |-> 0, event_type |-> "", payload |-> "",
     status |-> "", visibility_timeout |-> NULL, claimed_by |-> NULL,
     retry_count |-> 0, error_message |-> "", created_at |-> NULL,
     processed_at |-> NULL]

Columns == DOMAIN NoEvent

Ids == 1 .. Len(events)

Terminal(status) == status \in {"completed", "failed"}

\* ---------------------------------------------------------------- claim
\* variant: the lease counts as elapsed at its deadline
LeaseExpiredAtDeadline(row, t) ==
    row.visibility_timeout # NULL /\ row.visibility_timeout <= t

\* visibility_timeout < NOW(); a comparison with NULL is not true
LeaseExpired(row, t) ==
    row.visibility_timeout # NULL /\ row.visibility_timeout < t

\* variant: a processing row is served whatever its lease
EligibleAnyProcessing(row, t) ==
    /\ row.status \in {"pending", "processing"}
    /\ row.retry_count < max_retry_count

\* WHERE (status = 'pending' OR (status = 'processing' AND
\*        visibility_timeout < NOW())) AND retry_count < :max_retry_count
Eligible(row, t) ==
    /\ \/ row.status = "pending"
       \/ row.status = "processing" /\ LeaseExpired(row, t)
    /\ row.retry_count < max_retry_count

\* variant: the subquery without FOR UPDATE SKIP LOCKED
LockedNever(id) == FALSE

\* the row is locked by a claim whose transaction has not committed yet
Locked(id) == \E w \in Workers : pc[w] = "claiming" /\ ev[w] = id

CandidatesBehindLock ==
    IF \E id \in Ids : Locked(id)
    THEN {}
    ELSE {id \in Ids : Eligible(events[id], now)}

\* the rows the subquery can lock: eligible and not locked (SKIP LOCKED)
Candidates == {id \in Ids : Eligible(events[id], now) /\ ~Locked(id)}

\* ORDER BY created_at ASC LIMIT 1: any row with the least created_at
Newest(S) ==
    {id \in S : \A other \in S :
        events[id].created_at >= events[other].created_at}

Oldest(S) ==
    {id \in S : \A other \in S : events[id].created_at <= events[other].created_at}

\* SET status = 'processing', claimed_by = :worker_id,
\*     visibility_timeout = NOW() + INTERVAL ':timeout seconds'
ClaimedKeepingOwner(row, w, until) ==
    [row EXCEPT !.status = "processing", !.visibility_timeout = until]

Claimed(row, w, until) ==
    [row EXCEPT !.status = "processing", !.claimed_by = w,
                !.visibility_timeout = until]

\* ----------------------------------------------------------- unit of work
FlushClearingPayload(row, loaded, changed) ==
    [c \in Columns |-> IF c = "payload" THEN ""
                       ELSE IF changed[c] # loaded[c] THEN changed[c] ELSE row[c]]

\* the UPDATE the session flushes: the columns whose value was changed
Flush(row, loaded, changed) ==
    [c \in Columns |-> IF changed[c] # loaded[c] THEN changed[c] ELSE row[c]]

CompletedResettingRetries(loaded, t) ==
    [loaded EXCEPT !.status = "completed", !.processed_at = t,
                   !.visibility_timeout = NULL, !.retry_count = 0]

\* complete_event: the attribute assignments
Completed(loaded, t) ==
    [loaded EXCEPT !.status = "completed", !.processed_at = t,
                   !.visibility_timeout = NULL]

RECURSIVE Pow2(_)
Pow2(n) == IF n = 0 THEN 1 ELSE 2 * Pow2(n - 1)

Min(a, b) == IF a <= b THEN a ELSE b

backoff_seconds_uncapped(retry_count) == Pow2(retry_count) * backoff_base

\* min(300, 2 ** event.retry_count * 10)
backoff_seconds(retry_count) == Min(backoff_cap, Pow2(retry_count) * backoff_base)

\* fail_event: the attribute assignments, in a processor constructed with
\* max_retry_count = limit
FailedWithin(loaded, msg, t, limit) ==
    LET n == loaded.retry_count + 1 IN
    IF n >= limit
    THEN [loaded EXCEPT !.retry_count = n, !.error_message = msg,
                        !.status = "failed", !.processed_at = t,
                        !.visibility_timeout = NULL]
    ELSE [loaded EXCEPT !.retry_count = n, !.error_message = msg,
                        !.status = "pending",
                        !.visibility_timeout = t + backoff_seconds(n)]

\* fail_event: the attribute assignments, with the default max_retry_count
Failed(loaded, msg, t) == FailedWithin(loaded, msg, t, max_retry_count)

RECURSIVE Total(_)
\* number of claims executed so far, over all events
Total(counts) ==
    IF counts = <<>> THEN 0 ELSE Head(counts) + Total(Tail(counts))

\* WorkerPool.__init__(size=n): no worker yet, no shutdown requested
PoolCreated(n) ==
    /\ size = n
    /\ workers = <<>>
    /\ threads = <<>>
    /\ shutdown_requested = FALSE
    /\ stack = <<>>
    /\ nstarts = 0

\* ------------------------------------------------------------------ Init
Init ==
    /\ events = <<>>
    /\ now = 0
    /\ pc = [w \in Workers |-> "poll"]
    /\ ev = [w \in Workers |-> 0]
    /\ lease = [w \in Workers |-> NULL]
    /\ snap = [w \in Workers |-> NoEvent]
    /\ terminated = {}
    /\ overrun = FALSE
    /\ nclaims = <<>>
    /\ PoolCreated(0)
    /\ backlog = 0

\* --------------------------------------------------------------- actions
\* EventProcessor.insert_event
insert_event ==
    /\ Len(events) < MaxEvents
    /\ \E event_type \in EventTypes, payload \in Payloads :
          events' = Append(events, Event(Len(events) + 1, event_type, payload, now))
    /\ nclaims' = Append(nclaims, 0)
    /\ UNCHANGED <<now, pc, ev, lease, snap, terminated, overrun, pvars>>

\* claim_event, the UPDATE ... RETURNING found a row: it is locked and
\* updated inside the worker's open transaction
claim_event_execute(w) ==
    /\ pc[w] = "poll"
    /\ Total(nclaims) < MaxClaims
    /\ \E id \in Oldest(Candidates) :
          /\ ev' = [ev EXCEPT ![w] = id]
          /\ lease' = [lease EXCEPT ![w] = now + visibility_timeout]
          /\ nclaims' = [nclaims EXCEPT ![id] = @ + 1]
    /\ pc' = [pc EXCEPT ![w] = "claiming"]
    /\ UNCHANGED <<events, now, snap, terminated, overrun, pvars>>

\* claim_event, session.commit() and return event
claim_event_commit(w) ==
    /\ pc[w] = "claiming"
    /\ events' = [events EXCEPT ![ev[w]] = Claimed(@, w, lease[w])]
    /\ pc' = [pc EXCEPT ![w] = "claimed"]
    /\ UNCHANGED <<now, ev, lease, snap, terminated, overrun, nclaims, pvars>>

\* claim_event found no row and returns None; Worker.run sleeps
claim_event_none(w) ==
    /\ pc[w] = "poll"
    /\ Candidates = {}
    /\ pc' = [pc EXCEPT ![w] = "sleeping"]
    /\ UNCHANGED <<events, now, ev, lease, snap, terminated, overrun, nclaims, pvars>>

\* time.sleep(self.poll_interval) returns
sleep_done(w) ==
    /\ pc[w] = "sleeping"
    /\ pc' = [pc EXCEPT ![w] = "poll"]
    /\ UNCHANGED <<events, now, ev, lease, snap, terminated, overrun, nclaims, pvars>>

\* Worker._process_event reads event.id: the expired object is reloaded
\* from the committed row, then process_func(event) runs
process_event_start(w) ==
    /\ pc[w] = "claimed"
    /\ snap' = [snap EXCEPT ![w] = events[ev[w]]]
    /\ pc' = [pc EXCEPT ![w] = "processing"]
    /\ UNCHANGED <<events, now, ev, lease, terminated, overrun, nclaims, pvars>>

\* process_func returned; EventProcessor.complete_event
complete_event(w) ==
    /\ pc[w] = "processing"
    /\ ~Locked(ev[w])
    /\ LET row == Flush(events[ev[w]], snap[w], Completed(snap[w], now)) IN
          /\ events' = [events EXCEPT ![ev[w]] = row]
          /\ terminated' = IF Terminal(row.status) THEN terminated \cup {ev[w]}
                                                           ELSE terminated
    /\ pc' = [pc EXCEPT ![w] = "poll"]
    /\ ev' = [ev EXCEPT ![w] = 0]
    /\ lease' = [lease EXCEPT ![w] = NULL]
    /\ snap' = [snap EXCEPT ![w] = NoEvent]
    /\ UNCHANGED <<now, overrun, nclaims, pvars>>

\* process_func raised; EventProcessor.fail_event
fail_event_within(w, limit) ==
    /\ pc[w] = "processing"
    /\ ~Locked(ev[w])
    /\ \E msg \in ErrorMessages :
          LET row == Flush(events[ev[w]], snap[w],
                           FailedWithin(snap[w], msg, now, limit)) IN
             /\ events' = [events EXCEPT ![ev[w]] = row]
             /\ terminated' = IF Terminal(row.status) THEN terminated \cup {ev[w]}
                                                           ELSE terminated
    /\ pc' = [pc EXCEPT ![w] = "poll"]
    /\ ev' = [ev EXCEPT ![w] = 0]
    /\ lease' = [lease EXCEPT ![w] = NULL]
    /\ snap' = [snap EXCEPT ![w] = NoEvent]
    /\ UNCHANGED <<now, overrun, nclaims, pvars>>

\* Worker._process_event: the callback raised, with the default processor
fail_event(w) == fail_event_within(w, max_retry_count)

\* the worker's claim is executed or returned and complete_event or
\* fail_event has not been called for it yet
InFlight(w) == pc[w] \in {"claiming", "claimed", "processing"}

\* the clock advances, up to the time limit
TickUntil(limit) ==
    /\ \E d \in Delays : now' = now + d
    /\ now' <= limit
    /\ overrun' = (overrun \/ \E w \in Workers : InFlight(w) /\ lease[w] < now')
    /\ UNCHANGED <<events, pc, ev, lease, snap, terminated, nclaims, pvars>>

\* the clock advances
Tick == TickUntil(MaxTime)

Next ==
    \/ insert_event
    \/ \E w \in Workers : claim_event_execute(w)
    \/ \E w \in Workers : claim_event_commit(w)
    \/ \E w \in Workers : claim_event_none(w)
    \/ \E w \in Workers : sleep_done(w)
    \/ \E w \in Workers : process_event_start(w)
    \/ \E w \in Workers : complete_event(w)
    \/ \E w \in Workers : fail_event(w)
    \/ Tick

Spec == Init /\ [][Next]_vars

\* every worker thread keeps running: a claim call returns, a sleep ends, a
\* claimed event is handed to the callback, and the callback returns or
\* raises
Fairness ==
    \A w \in Workers :
        /\ WF_vars(claim_event_execute(w))
        /\ WF_vars(claim_event_commit(w))
        /\ WF_vars(claim_event_none(w))
        /\ WF_vars(sleep_done(w))
        /\ WF_vars(process_event_start(w))
        /\ WF_vars(complete_event(w) \/ fail_event(w))

SpecFair == Spec /\ Fairness

\* --------------------------------------- one more lease duration of time
NextLate ==
    \/ insert_event
    \/ \E w \in Workers : claim_event_execute(w)
    \/ \E w \in Workers : claim_event_commit(w)
    \/ \E w \in Workers : claim_event_none(w)
    \/ \E w \in Workers : sleep_done(w)
    \/ \E w \in Workers : process_event_start(w)
    \/ \E w \in Workers : complete_event(w)
    \/ \E w \in Workers : fail_event(w)
    \/ TickUntil(MaxTimeLate)

SpecLate == Init /\ [][NextLate]_vars

\* ------------------------------------------------------- store failures
\* claim_event: session.execute raises; rollback, return None, and the
\* worker sleeps as after an empty poll
claim_event_error(w) ==
    /\ pc[w] = "poll"
    /\ pc' = [pc EXCEPT ![w] = "sleeping"]
    /\ UNCHANGED <<events, now, ev, lease, snap, terminated, overrun, nclaims, pvars>>

\* claim_event: the UPDATE has run and the load of the row or the commit
\* raises; rollback undoes the UPDATE and releases the row lock, return None
claim_event_rollback(w) ==
    /\ pc[w] = "claiming"
    /\ pc' = [pc EXCEPT ![w] = "sleeping"]
    /\ nclaims' = [nclaims EXCEPT ![ev[w]] = @ - 1]
    /\ ev' = [ev EXCEPT ![w] = 0]
    /\ lease' = [lease EXCEPT ![w] = NULL]
    /\ UNCHANGED <<events, now, snap, terminated, overrun, pvars>>

\* complete_event: session.commit raises; rollback expires the event
\* object, and the error log line reads event.id, which reloads the row:
\* when the reload succeeds the call returns False, when the store is still
\* failing the reload raises out of complete_event and the worker's except
\* block takes over
complete_event_error(w) ==
    /\ pc[w] = "processing"
    /\ \/ /\ pc' = [pc EXCEPT ![w] = "poll"]
          /\ ev' = [ev EXCEPT ![w] = 0]
          /\ lease' = [lease EXCEPT ![w] = NULL]
       \/ /\ pc' = [pc EXCEPT ![w] = "raised"]
          /\ UNCHANGED <<ev, lease>>
    /\ snap' = [snap EXCEPT ![w] = NoEvent]
    /\ UNCHANGED <<events, now, terminated, overrun, nclaims, pvars>>

\* Worker._process_event, except block after complete_event raised:
\* fail_event reads retry_count of the expired object, which reloads the
\* stored row, and commits
fail_event_after_raise(w) ==
    /\ pc[w] = "raised"
    /\ ~Locked(ev[w])
    /\ \E msg \in ErrorMessages :
          LET row == Failed(events[ev[w]], msg, now) IN
             /\ events' = [events EXCEPT ![ev[w]] = row]
             /\ terminated' = IF Terminal(row.status) THEN terminated \cup {ev[w]}
                                                           ELSE terminated
    /\ pc' = [pc EXCEPT ![w] = "poll"]
    /\ ev' = [ev EXCEPT ![w] = 0]
    /\ lease' = [lease EXCEPT ![w] = NULL]
    /\ UNCHANGED <<now, snap, overrun, nclaims, pvars>>

\* fail_event: the reload or session.commit raises; rollback, and the error
\* log line reads event.id: the call returns False when that reload
\* succeeds, and raises to the loop of Worker.run, which sleeps, when not
fail_event_error(w) ==
    /\ pc[w] \in {"processing", "raised"}
    /\ \E after \in {"poll", "sleeping"} : pc' = [pc EXCEPT ![w] = after]
    /\ ev' = [ev EXCEPT ![w] = 0]
    /\ lease' = [lease EXCEPT ![w] = NULL]
    /\ snap' = [snap EXCEPT ![w] = NoEvent]
    /\ UNCHANGED <<events, now, terminated, overrun, nclaims, pvars>>

NextStoreError ==
    \/ insert_event
    \/ \E w \in Workers : claim_event_execute(w)
    \/ \E w \in Workers : claim_event_commit(w)
    \/ \E w \in Workers : claim_event_none(w)
    \/ \E w \in Workers : sleep_done(w)
    \/ \E w \in Workers : process_event_start(w)
    \/ \E w \in Workers : complete_event(w)
    \/ \E w \in Workers : fail_event(w)
    \/ Tick
    \/ \E w \in Workers : claim_event_error(w)
    \/ \E w \in Workers : claim_event_rollback(w)
    \/ \E w \in Workers : complete_event_error(w)
    \/ \E w \in Workers : fail_event_after_raise(w)
    \/ \E w \in Workers : fail_event_error(w)

SpecStoreError == Init /\ [][NextStoreError]_vars

\* ------------------------------------------------- the backoff schedule
\* the instants of the clock
Times == {t \in 0 .. MaxTime : t % visibility_timeout = 0}

\* A processor constructed with max_retry_count = RetryLimit: one event,
\* created at c, that has failed n times and is being processed again by
\* worker w, which claimed it at t.
InitBackoff ==
    \E n \in 0 .. RetryLimit - 1 : \E t \in Times : \E w \in Workers :
    \E c \in {u \in Times : u <= t} :
    \E event_type \in EventTypes : \E payload \in Payloads :
    \E msg \in ErrorMessages :
       LET row == [Claimed(Event(1, event_type, payload, c),
                           w, t + visibility_timeout)
                     EXCEPT !.retry_count = n,
                            !.error_message = IF n = 0 THEN "" ELSE msg]
       IN  /\ events = <<row>>
           /\ now = t
           /\ pc = [v \in Workers |-> IF v = w THEN "processing" ELSE "poll"]
           /\ ev = [v \in Workers |-> IF v = w THEN 1 ELSE 0]
           /\ lease = [v \in Workers |->
                         IF v = w THEN t + visibility_timeout ELSE NULL]
           /\ snap = [v \in Workers |-> IF v = w THEN row ELSE NoEvent]
           /\ terminated = {}
           /\ overrun = FALSE
           /\ nclaims = <<n + 1>>
           /\ PoolCreated(0)
           /\ backlog = 0

\* the callback raises and the worker calls fail_event
NextBackoff == \E w \in Workers : fail_event_within(w, RetryLimit)

SpecBackoff == InitBackoff /\ [][NextBackoff]_vars

\* ---------------------------------------------------------- introspection
\* EventProcessor.get_queue_depth: filter(Event.status == "pending").count()
get_queue_depth ==
    Cardinality({id \in Ids : events[id].status = "pending"})

\* EventProcessor.get_processing_count: filter(Event.status == "processing",
\* Event.visibility_timeout > datetime.utcnow()).count()
get_processing_count ==
    Cardinality({id \in Ids : /\ events[id].status = "processing"
                              /\ events[id].visibility_timeout # NULL
                              /\ events[id].visibility_timeout > now})

\* get_queue_stats, `row.count` of a result row (status, COUNT(*)) that
\* holds the number n: the column is a text() expression, which gives the
\* row no key, so the attribute is the row's sequence method count and
\* not the number
row_count(n) == NULL

\* EventProcessor.get_queue_stats: one entry per status that has rows, from
\* GROUP BY status, and stats["expired_processing"] from
\* filter(Event.status == "processing",
\*        Event.visibility_timeout < datetime.utcnow()).count()
get_queue_stats ==
    [s \in {events[id].status : id \in Ids} \cup {"expired_processing"} |->
        IF s = "expired_processing"
        THEN Cardinality({id \in Ids : /\ events[id].status = "processing"
                                       /\ events[id].visibility_timeout # NULL
                                       /\ events[id].visibility_timeout < now})
        ELSE row_count(Cardinality({id \in Ids : events[id].status = s}))]

\* -------------------------------------------------------- the worker pool
\* The pool is driven by the main thread: start(), stop(timeout) and
\* run_forever() are called one at a time, and a SIGINT or SIGTERM runs
\* _signal_handler inside whatever call is in progress.  Here the queue
\* operations of a worker thread are taken by their outcomes (an event or
\* none, a return or an exception), so that the threads' control flow, the
\* stop signals and the join deadlines are what is explored.

\* WorkerPool.stop(timeout=30.0)
stop_timeout == 30
\* Worker.is_healthy: idle_time > 600
stuck_threshold == 600
\* the pool sizes WorkerPool is constructed with
PoolSizes == {0, 1, 2}
\* the number of Worker threads created, over all start() calls
MaxThreads == 2
\* the number of start() calls
MaxStarts == 2
\* the time limit of the pool's clock
MaxTimePool == 660
\* the numbers of events in the store when the pool is constructed
Backlogs == {0, 1}
\* the timeout arguments of stop()
StopTimeouts == {0, stop_timeout}

Max(a, b) == IF a >= b THEN a ELSE b

ThreadUnnumbered(i) ==
    [worker_id |-> 0, at |-> "started", stop_event |-> FALSE,
     is_running |-> FALSE, last_event_at |-> NULL,
     events_processed |-> 0, events_failed |-> 0,
     returned |-> "None", raised |-> "None", nstops |-> 0]

\* Worker(worker_id=f"worker-{i}", ...) followed by worker.start(): the
\* thread is alive, its WorkerStats counters are 0 and run() has not
\* executed a statement yet.  Inside _process_event, returned is the
\* value complete_event has returned and raised the call whose exception
\* the except block is handling.  nstops counts the Worker.stop() calls
\* (history).
Thread(i) ==
    [worker_id |-> i, at |-> "started", stop_event |-> FALSE,
     is_running |-> FALSE, last_event_at |-> NULL,
     events_processed |-> 0, events_failed |-> 0,
     returned |-> "None", raised |-> "None", nstops |-> 0]

ThreadIds == 1 .. Len(threads)

\* the threads in WorkerPool.workers
PoolThreads == {workers[i] : i \in 1 .. Len(workers)}

\* Thread.is_alive(): run() has not returned
is_alive(t) == threads[t].at # "stopped"

\* Worker.is_healthy: an idle time above the threshold is logged as a
\* warning and the method still returns True
is_healthy(t) ==
    IF ~threads[t].is_running THEN FALSE
    ELSE IF /\ threads[t].last_event_at # NULL
            /\ now - threads[t].last_event_at > stuck_threshold
         THEN TRUE
         ELSE TRUE

health_check_all == \A t \in PoolThreads : is_healthy(t)

\* WorkerPool.health_check
health_check ==
    IF workers = <<>> THEN FALSE ELSE \A t \in PoolThreads : is_healthy(t)

\* WorkerPool.stop: `for worker in self.workers: worker.stop()`
Signalled ==
    [t \in ThreadIds |->
        IF t \in PoolThreads
        THEN [threads[t] EXCEPT !.stop_event = TRUE, !.nstops = @ + 1]
        ELSE threads[t]]

\* WorkerPool.run_forever, in its while loop
RunForeverFrame ==
    [op |-> "run_forever", caller |-> "main", i |-> 0, joining |-> 0,
     start_time |-> NULL, deadline |-> NULL, timeout |-> NULL]

\* WorkerPool.stop(timeout) called by caller at time t, in
\* worker.join(timeout=remaining_time) of the first worker
StopFrame(caller, timeout, t) ==
    [op |-> "stop", caller |-> caller, i |-> 1, joining |-> workers[1],
     start_time |-> t, deadline |-> t + Max(0, timeout - (t - t)),
     timeout |-> timeout]

remaining_time_per_worker(f, t) == f.timeout

\* remaining_time = max(0, timeout - (time.time() - start_time))
remaining_time(f, t) == Max(0, f.timeout - (t - f.start_time))

\* WorkerPool.stop(timeout) up to its first join, called with the calls
\* `below` in progress: a pool without workers returns at once
stop(caller, timeout, below) ==
    IF workers = <<>>
    THEN /\ stack' = below
         /\ UNCHANGED threads
    ELSE /\ threads' = Signalled
         /\ stack' = <<StopFrame(caller, timeout, now)>> \o below

\* WorkerPool.start
start ==
    /\ stack = <<>>
    /\ nstarts < MaxStarts
    /\ workers = <<>> => Len(threads) + size <= MaxThreads
    /\ nstarts' = nstarts + 1
    /\ IF workers # <<>>
       THEN UNCHANGED <<workers, threads>>
       ELSE /\ threads' = threads \o [i \in 1 .. size |-> Thread(i - 1)]
            /\ workers' = [i \in 1 .. size |-> Len(threads) + i]
    /\ UNCHANGED <<size, shutdown_requested, stack, backlog, now, qvars>>

\* the main thread calls WorkerPool.stop(timeout)
stop_call ==
    /\ stack = <<>>
    /\ \E timeout \in StopTimeouts : stop("main", timeout, <<>>)
    /\ UNCHANGED <<size, workers, shutdown_requested, nstarts, backlog, now, qvars>>

\* WorkerPool.stop: worker.join(timeout=remaining_time) returns, because
\* the thread has ended or the time is up; then the next join is entered
\* or, after the last one, self.workers.clear()
stop_join ==
    /\ stack # <<>>
    /\ Head(stack).op = "stop"
    /\ LET f == Head(stack) IN
          /\ ~is_alive(f.joining) \/ now >= f.deadline
          /\ IF f.i + 1 > Len(workers)
             THEN /\ workers' = <<>>
                  /\ stack' = Tail(stack)
             ELSE /\ stack' = <<[f EXCEPT !.i = @ + 1,
                                         !.joining = workers[f.i + 1],
                                         !.deadline = now + remaining_time(f, now)]>>
                               \o Tail(stack)
                  /\ UNCHANGED workers
    /\ UNCHANGED <<size, threads, shutdown_requested, nstarts, backlog, now, qvars>>

\* SIGINT or SIGTERM: WorkerPool._signal_handler runs in the main thread
_signal_handler ==
    /\ IF shutdown_requested
       THEN UNCHANGED <<shutdown_requested, threads, stack>>
       ELSE /\ shutdown_requested' = TRUE
            /\ stop("_signal_handler", stop_timeout, stack)
    /\ UNCHANGED <<size, workers, nstarts, backlog, now, qvars>>

\* the main thread calls WorkerPool.run_forever
run_forever ==
    /\ stack = <<>>
    /\ stack' = <<RunForeverFrame>>
    /\ UNCHANGED <<size, workers, threads, shutdown_requested, nstarts, backlog, now, qvars>>

run_forever_exit_unrequested ==
    /\ stack # <<>>
    /\ Head(stack).op = "run_forever"
    /\ stop("run_forever", stop_timeout, Tail(stack))
    /\ UNCHANGED <<size, workers, shutdown_requested, nstarts, backlog, now, qvars>>

\* run_forever: `while not self._shutdown_requested` ends, finally: stop()
run_forever_exit ==
    /\ stack # <<>>
    /\ Head(stack).op = "run_forever"
    /\ shutdown_requested
    /\ stop("run_forever", stop_timeout, Tail(stack))
    /\ UNCHANGED <<size, workers, shutdown_requested, nstarts, backlog, now, qvars>>

\* the thread's steps leave the pool and the queue as they are
ThreadStep(t, after) ==
    /\ threads' = [threads EXCEPT ![t] = after]
    /\ UNCHANGED <<size, workers, shutdown_requested, stack, nstarts, backlog, now, qvars>>

thread_run_unflagged(t) ==
    /\ threads[t].at = "started"
    /\ ThreadStep(t, [threads[t] EXCEPT !.at = "idle"])

\* Worker.run begins: self.stats.is_running = True
thread_run(t) ==
    /\ threads[t].at = "started"
    /\ ThreadStep(t, [threads[t] EXCEPT !.is_running = TRUE, !.at = "idle"])

loop_condition_unconditional(t) == TRUE

\* Worker.run: `not self._stop_event.is_set()`
loop_condition(t) == ~threads[t].stop_event

thread_loop_exiting(t) ==
    /\ threads[t].at = "idle"
    /\ ThreadStep(t, [threads[t] EXCEPT !.is_running = FALSE, !.at = "stopped"])

\* Worker.run: `while not self._stop_event.is_set()`, and after the loop
\* self.stats.is_running = False
thread_loop(t) ==
    /\ threads[t].at = "idle"
    /\ IF loop_condition(t)
       THEN ThreadStep(t, [threads[t] EXCEPT !.at = "claiming"])
       ELSE ThreadStep(t, [threads[t] EXCEPT !.is_running = FALSE, !.at = "stopped"])

RECURSIVE Sum(_, _)
Sum(f, S) ==
    IF S = {} THEN 0
    ELSE LET x == CHOOSE y \in S : TRUE IN f[x] + Sum(f, S \ {x})

\* Worker.run: processor.claim_event() returns an event of the backlog,
\* and stats.last_event_at = time.time(); or it returns None, or opening
\* the session raises, and the worker sleeps
thread_claim_event(t) ==
    /\ threads[t].at = "claiming"
    /\ \/ /\ backlog > 0
          /\ backlog' = backlog - 1
          /\ threads' = [threads EXCEPT ![t].last_event_at = now,
                                        ![t].at = "processing"]
          /\ UNCHANGED <<size, workers, shutdown_requested, stack, nstarts,
                         now, qvars>>
       \/ ThreadStep(t, [threads[t] EXCEPT !.at = "sleeping"])

\* Worker._process_event: process_func(event) returns, or raises into the
\* except block, which calls fail_event
thread_process_func(t) ==
    /\ threads[t].at = "processing"
    /\ \/ ThreadStep(t, [threads[t] EXCEPT !.at = "completing"])
       \/ ThreadStep(t, [threads[t] EXCEPT !.raised = "process_func",
                                          !.at = "failing"])

\* Worker._process_event: complete_event returns True (the commit
\* succeeded) or False (it failed and was rolled back); or it raises
\* into the except block, which calls fail_event
thread_complete_event(t) ==
    /\ threads[t].at = "completing"
    /\ threads[t].returned = "None"
    /\ \/ \E success \in {"True", "False"} :
             ThreadStep(t, [threads[t] EXCEPT !.returned = success])
       \/ ThreadStep(t, [threads[t] EXCEPT !.raised = "complete_event",
                                          !.at = "failing"])

\* Worker._process_event: self.stats.events_processed += 1, whatever
\* complete_event returned, and the call returns to the loop
thread_events_processed(t) ==
    /\ threads[t].at = "completing"
    /\ threads[t].returned # "None"
    /\ ThreadStep(t, [threads[t] EXCEPT !.events_processed = @ + 1,
                                        !.returned = "None",
                                        !.at = "idle"])

\* Worker._process_event: fail_event returns and stats.events_failed += 1;
\* or fail_event raises into the except block of Worker.run, which sleeps
thread_fail_event(t) ==
    /\ threads[t].at = "failing"
    /\ \/ ThreadStep(t, [threads[t] EXCEPT !.events_failed = @ + 1,
                                          !.raised = "None",
                                          !.at = "idle"])
       \/ ThreadStep(t, [threads[t] EXCEPT !.raised = "None", !.at = "sleeping"])

\* Worker.run: time.sleep(self.poll_interval) returns
thread_sleep(t) ==
    /\ threads[t].at = "sleeping"
    /\ ThreadStep(t, [threads[t] EXCEPT !.at = "idle"])

\* WorkerPool.get_stats(): the totals summed over self.workers, and the
\* breakdown per worker
get_stats ==
    LET W == 1 .. Len(workers)
    IN  [pool_size |-> size,
         workers_running |->
            Cardinality({i \in W : threads[workers[i]].is_running}),
         total_events_processed |->
            Sum([i \in W |-> threads[workers[i]].events_processed], W),
         total_events_failed |->
            Sum([i \in W |-> threads[workers[i]].events_failed], W),
         workers |->
            [i \in W |->
                [worker_id |-> threads[workers[i]].worker_id,
                 is_running |-> threads[workers[i]].is_running,
                 events_processed |-> threads[workers[i]].events_processed,
                 events_failed |-> threads[workers[i]].events_failed,
                 last_event_at |-> threads[workers[i]].last_event_at]]]

\* the main thread is inside a join that has not returned yet
Joining == stack # <<>> /\ Head(stack).op = "stop"

\* the pool's clock advances: to the deadline of the join the main thread
\* waits in, which returns no later than that, or by one stuck threshold
\* when it waits in none
TickPool ==
    /\ IF Joining
       THEN /\ is_alive(Head(stack).joining)
            /\ now < Head(stack).deadline
            /\ now' = Head(stack).deadline
       ELSE /\ now' = now + stuck_threshold
            /\ now' <= MaxTimePool
    /\ UNCHANGED <<pvars, qvars>>

\* a pool of one of the sizes, just constructed
InitPool ==
    /\ events = <<>>
    /\ now = 0
    /\ pc = [w \in Workers |-> "poll"]
    /\ ev = [w \in Workers |-> 0]
    /\ lease = [w \in Workers |-> NULL]
    /\ snap = [w \in Workers |-> NoEvent]
    /\ terminated = {}
    /\ overrun = FALSE
    /\ nclaims = <<>>
    /\ \E n \in PoolSizes : PoolCreated(n)
    /\ backlog \in Backlogs

\* the steps of the worker threads
NextThread ==
    \/ \E t \in ThreadIds : thread_run(t)
    \/ \E t \in ThreadIds : thread_loop(t)
    \/ \E t \in ThreadIds : thread_claim_event(t)
    \/ \E t \in ThreadIds : thread_process_func(t)
    \/ \E t \in ThreadIds : thread_complete_event(t)
    \/ \E t \in ThreadIds : thread_events_processed(t)
    \/ \E t \in ThreadIds : thread_fail_event(t)
    \/ \E t \in ThreadIds : thread_sleep(t)

\* the pool used through start() and stop(timeout)
NextPool ==
    \/ start
    \/ stop_call
    \/ stop_join
    \/ NextThread
    \/ TickPool

SpecPool == InitPool /\ [][NextPool]_vars

\* the pool used as a service: start(), then run_forever() until a signal
NextService ==
    \/ start
    \/ run_forever
    \/ _signal_handler
    \/ run_forever_exit
    \/ stop_join
    \/ NextThread
    \/ TickPool

SpecService == InitPool /\ [][NextService]_vars

\* the main thread runs when it can, and the clock advances
FairnessService ==
    /\ WF_vars(run_forever_exit)
    /\ WF_vars(stop_join)
    /\ WF_vars(TickPool)

SpecServiceFair == SpecService /\ FairnessService

\* ------------------------------------------------------------ properties
\* worker w's claim selects and locks event id in this step
ClaimReturns(w, id) == pc[w] = "poll" /\ pc'[w] = "claiming" /\ ev'[w] = id

\* worker w calls complete_event or fail_event in this step
Reports(w) == pc[w] = "processing" /\ pc'[w] = "poll"

\* worker w has been returned event id and has not reported on it yet
Holding(w, id) == pc[w] \in {"claimed", "processing"} /\ ev[w] = id

\* C1: no double-claim.  Two claims in flight at the same time never hold
\* the same event, and a claim never returns an event whose row is
\* processing with a lease that has not expired.
C1_NoDoubleClaim ==
    /\ [](\A w1, w2 \in Workers :
             (w1 # w2 /\ pc[w1] = "claiming" /\ pc[w2] = "claiming")
                => ev[w1] # ev[w2])
    /\ [][\A w \in Workers : \A id \in Ids :
             ClaimReturns(w, id) =>
                ~(/\ events[id].status = "processing"
                  /\ events[id].visibility_timeout >= now)]_vars

\* two claims are in flight at the same time
C1_Witness ==
    \E w1, w2 \in Workers :
        w1 # w2 /\ pc[w1] = "claiming" /\ pc[w2] = "claiming"

C3_SingleActiveLease ==
    \A id \in Ids : \A w1, w2 \in Workers :
        (w1 # w2 /\ Holding(w1, id) /\ Holding(w2, id))
           => ~(lease[w1] > now /\ lease[w2] > now)

\* C4: terminal immutability.  No step changes status, retry_count,
\* processed_at or visibility_timeout of an event whose status is completed
\* or failed.
C4_TerminalImmutable ==
    [][\A id \in Ids :
          Terminal(events[id].status) =>
             /\ events'[id].status = events[id].status
             /\ events'[id].retry_count = events[id].retry_count
             /\ events'[id].processed_at = events[id].processed_at
             /\ events'[id].visibility_timeout = events[id].visibility_timeout]_vars

\* C5: a late call is a no-op.  When worker a's lease has expired and
\* worker b has since claimed the event, a's complete or fail leaves status,
\* claimed_by, visibility_timeout and retry_count as b's claim set them.
C5_LateCallNoOp ==
    [][\A a, b \in Workers : \A id \in Ids :
          (/\ a # b
           /\ pc[a] = "processing" /\ ev[a] = id /\ lease[a] < now
           /\ Holding(b, id)
           /\ events[id] = Claimed(events[id], b, lease[b])
           /\ Reports(a))
          => /\ events'[id].status = events[id].status
             /\ events'[id].claimed_by = events[id].claimed_by
             /\ events'[id].visibility_timeout = events[id].visibility_timeout
             /\ events'[id].retry_count = events[id].retry_count]_vars

\* C6: once an event has reached status completed or failed, no later
\* claim returns it.
C6_TerminalNeverClaimed ==
    \A w \in Workers : pc[w] = "claiming" => ev[w] \notin terminated

\* C7: no step lowers the stored retry_count of an event.
C7_RetryCountMonotonic ==
    [][\A id \in Ids :
          events'[id].retry_count >= events[id].retry_count]_vars

\* C8: every event has 0 <= retry_count <= max_retry_count.
C8_RetryCountBounded ==
    \A id \in Ids :
        /\ 0 <= events[id].retry_count
        /\ events[id].retry_count <= max_retry_count

\* event id is processing, not locked by a claim in flight, has retries
\* left and no other candidate is as old
Abandoned(id) ==
    /\ events[id].status = "processing"
    /\ events[id].visibility_timeout # NULL
    /\ events[id].retry_count < max_retry_count
    /\ ~Locked(id)
    /\ \A other \in Candidates \ {id} :
          events[other].created_at > events[id].created_at

\* worker w's claim_event runs in this step
Claims(w) == pc[w] = "poll" /\ pc'[w] \in {"claiming", "sleeping"}

C10_BackoffHonoured ==
    [][\A w \in Workers : \A id \in Ids :
          (/\ ClaimReturns(w, id)
           /\ events[id].status = "pending"
           /\ events[id].visibility_timeout # NULL)
          => events[id].visibility_timeout <= now]_vars

\* C11: bounded attempts.  Over its lifetime an event is returned by claim
\* at most max_retry_count times, whether the attempts ended in fail or
\* were abandoned until the lease expired.
C11_BoundedAttempts ==
    \A id \in Ids : nclaims[id] <= max_retry_count

\* event id waits for a worker: it is pending, or it is processing, its
\* lease has elapsed and no worker holds it any more
Waiting(id) ==
    /\ id \in Ids
    /\ \/ events[id].status = "pending"
       \/ /\ events[id].status = "processing"
          /\ LeaseExpired(events[id], now)
          /\ \A w \in Workers : ~(InFlight(w) /\ ev[w] = id)

\* a claim call has selected event id and is about to return it
Returned(id) == \E w \in Workers : pc[w] = "claiming" /\ ev[w] = id

\* C12: no event lost.  With the workers polling fairly, every pending
\* event and every processing event whose lease has elapsed is eventually
\* returned by some claim (as long as claims remain within MaxClaims).
C12_NoEventLost ==
    \A id \in 1 .. MaxEvents :
        Waiting(id) ~> (Returned(id) \/ Total(nclaims) >= MaxClaims)

\* some event is eligible: pending, or processing with its lease elapsed,
\* and with retries left
SomeEligible == \E id \in Ids : Eligible(events[id], now)

\* some event is eligible and its row is not locked by a claim in flight
SomeEligibleUnlocked ==
    \E id \in Ids : Eligible(events[id], now) /\ ~Locked(id)

\* the effect of a claim by worker w: the event it returns is eligible and
\* unlocked, its lease runs visibility_timeout from the time of the claim,
\* the commit sets status, claimed_by and visibility_timeout of that event
\* and nothing else, and a claim that returns none changes nothing
ClaimEffect(w) ==
    /\ \A id \in Ids :
          ClaimReturns(w, id) =>
             /\ Eligible(events[id], now) /\ ~Locked(id)
             /\ lease'[w] = now + visibility_timeout
             /\ events' = events
    /\ (pc[w] = "claiming" /\ pc'[w] = "claimed") =>
          /\ Len(events') = Len(events)
          /\ \A id \in Ids :
                events'[id] =
                   IF id = ev[w]
                   THEN [events[id] EXCEPT !.status = "processing",
                                           !.claimed_by = w,
                                           !.visibility_timeout = lease[w]]
                   ELSE events[id]
    /\ (pc[w] = "poll" /\ pc'[w] = "sleeping") => events' = events

EverClaimed(id) == events[id].claimed_by # NULL \/ Locked(id)

Fails(w, msg) ==
    /\ pc[w] = "processing" /\ pc'[w] = "poll"
    /\ events' = [events EXCEPT ![ev[w]] =
                     Flush(@, snap[w], Failed(snap[w], msg, now))]

\* C15: fail increments the stored retry_count by exactly one and records
\* msg as error_message; when the new retry_count reaches max_retry_count
\* the event becomes failed with processed_at set and visibility_timeout
\* cleared, otherwise it becomes pending again.
C15_FailIncrementsByOne ==
    [][\A w \in Workers : \A msg \in ErrorMessages :
          Fails(w, msg) =>
             LET before == events[ev[w]]
                 after == events'[ev[w]]
             IN  /\ after.retry_count = before.retry_count + 1
                 /\ after.error_message = msg
                 /\ IF after.retry_count >= max_retry_count
                    THEN /\ after.status = "failed"
                         /\ after.processed_at # NULL
                         /\ after.visibility_timeout = NULL
                    ELSE after.status = "pending"]_vars

\* C16: backoff formula.  When fail leaves an event pending with the new
\* retry_count n, visibility_timeout = now + min(300, 10 * 2^n): 20, 40,
\* 80, 160 and 300 seconds for n = 1 .. 5; the delay never exceeds 300
\* seconds and is never less than the delay of a smaller n.
C16_BackoffSchedule ==
    [][\A w \in Workers :
          (/\ pc[w] = "processing" /\ pc'[w] = "poll"
           /\ events'[ev[w]].status = "pending")
          => LET n == events'[ev[w]].retry_count
                 delay == events'[ev[w]].visibility_timeout - now
             IN  /\ n = events[ev[w]].retry_count + 1
                 /\ delay = (IF 10 * 2^n < 300 THEN 10 * 2^n ELSE 300)
                 /\ delay = (CASE n = 1 -> 20 [] n = 2 -> 40 [] n = 3 -> 80
                                [] n = 4 -> 160 [] OTHER -> 300)
                 /\ delay <= 300
                 /\ \A m \in 1 .. n :
                       (IF 10 * 2^m < 300 THEN 10 * 2^m ELSE 300) <= delay]_vars

\* fail has left an event pending after its fifth failure, with the
\* delay capped at 300 seconds
C16_Witness ==
    \E id \in Ids :
        /\ events[id].status = "pending"
        /\ events[id].retry_count = 5
        /\ events[id].visibility_timeout = now + 300

\* worker w's callback has returned and w calls complete_event(event) in
\* this step
Completes(w) ==
    /\ pc[w] = "processing" /\ pc'[w] = "poll"
    /\ events' = [events EXCEPT ![ev[w]] =
                     Flush(@, snap[w], Completed(snap[w], now))]

\* C17: complete on a processing event sets status = completed, sets
\* processed_at and clears visibility_timeout, and leaves retry_count,
\* claimed_by, error_message, created_at, event_type and payload of that
\* event and every field of every other event unchanged.
C17_CompleteFrame ==
    [][\A w \in Workers :
          (Completes(w) /\ snap[w].status = "processing") =>
             LET before == events[ev[w]]
                 after == events'[ev[w]]
             IN  /\ after.status = "completed"
                 /\ after.processed_at = now
                 /\ after.visibility_timeout = NULL
                 /\ \A c \in Columns \ {"status", "processed_at",
                                         "visibility_timeout"} :
                       after[c] = before[c]
                 /\ Len(events') = Len(events)
                 /\ \A other \in Ids \ {ev[w]} :
                       events'[other] = events[other]]_vars

\* an event that had failed before is completed, with its retry_count and
\* error_message kept, while another event is processing
C17_Witness ==
    \E id, other \in Ids :
        /\ events[id].status = "completed"
        /\ events[id].processed_at # NULL
        /\ events[id].visibility_timeout = NULL
        /\ events[id].retry_count > 0
        /\ events[id].error_message # ""
        /\ events[other].status = "processing"

\* C18: complete is idempotent.  complete on an event that is already
\* completed leaves its stored status, processed_at, visibility_timeout
\* and retry_count as the first complete left them.
C18_CompleteIdempotent ==
    [][\A w \in Workers :
          (Completes(w) /\ events[ev[w]].status = "completed") =>
             /\ events'[ev[w]].status = events[ev[w]].status
             /\ events'[ev[w]].processed_at = events[ev[w]].processed_at
             /\ events'[ev[w]].visibility_timeout = events[ev[w]].visibility_timeout
             /\ events'[ev[w]].retry_count = events[ev[w]].retry_count]_vars

\* C19: store errors degrade, never raise.  A claim that returns none
\* leaves every stored event as it was, and a complete or fail call
\* returns to the statement after it (the worker's next poll) on every
\* outcome: it never raises into the worker's except block or loop.
C19_StoreErrorsDegrade ==
    [][\A w \in Workers :
          /\ (pc[w] \in {"poll", "claiming"} /\ pc'[w] = "sleeping")
                => events' = events
          /\ pc[w] = "processing" => pc'[w] \in {"processing", "poll"}]_vars

\* C20: insert adds exactly one new event, pending, with retry_count 0, no
\* visibility_timeout and no claimed_by, carrying a type and payload of the
\* call; its id differs from and is greater than every id assigned
\* before; no existing event is changed.
C20_InsertAddsOnePending ==
    [][Len(events') # Len(events) =>
          /\ Len(events') = Len(events) + 1
          /\ LET row == events'[Len(events')]
             IN  /\ row.status = "pending"
                 /\ row.retry_count = 0
                 /\ row.visibility_timeout = NULL
                 /\ row.claimed_by = NULL
                 /\ row.processed_at = NULL
                 /\ row.event_type \in EventTypes
                 /\ row.payload \in Payloads
                 /\ \A id \in Ids : row.id > events[id].id
          /\ \A id \in Ids : events'[id] = events[id]]_vars

\* an event was inserted after an earlier one had been claimed: it is
\* pending and unclaimed, and the earlier event is no longer pending
C20_Witness ==
    /\ Len(events) = 2
    /\ events[1].status # "pending"
    /\ events[2].created_at > events[1].created_at
    /\ events[2].status = "pending"
    /\ events[2].claimed_by = NULL
    /\ events[2].id > events[1].id

\* ------------------------------------------------------------------- C21
\* C21: events are never deleted and their identity never changes: no step
\* removes a stored row, and the id, created_at, event_type and payload of
\* every stored row are after the step what they were before it
C21_IdentityImmutable ==
    [][/\ Len(events') >= Len(events)
       /\ \A id \in Ids :
             /\ events'[id].id = events[id].id
             /\ events'[id].created_at = events[id].created_at
             /\ events'[id].event_type = events[id].event_type
             /\ events'[id].payload = events[id].payload]_vars

\* an event has been claimed, failed, claimed again and completed at a later
\* time than it was inserted, next to a second stored event
C21_Witness ==
    /\ Len(events) = 2
    /\ events[1].status = "completed"
    /\ events[1].retry_count > 0
    /\ events[1].processed_at > events[1].created_at
    /\ events[1].payload \in Payloads
    /\ events[1].id = 1


\* ------------------------------------------------------------------- C22
\* C22: for every claimed event the worker runs the processing function
\* once and then calls exactly one of complete_event (it returned) or
\* fail_event (it raised), and stays in its loop: the call made for a
\* processing event returns the worker to the loop, and a worker that has
\* called complete_event for its event never calls fail_event for it too.
C22_ExactlyOneReport ==
    [][\A w \in Workers :
          /\ pc[w] = "processing" =>
                pc'[w] \in {"processing", "poll", "sleeping", "raised"}
          /\ pc[w] = "raised" => pc'[w] = "raised"]_vars


\* ------------------------------------------------------------------- C23
\* C23: a worker's loop ends only on its own stop signal.  A thread stops
\* running only at the loop condition with its stop event set; a claim
\* that returns none or meets an error puts it to sleep, an error of the
\* processing function or of a report call keeps it in the loop, and
\* after the sleep it is back at the loop condition.
C23_OnlyStopSignalStops ==
    [][\A t \in ThreadIds :
          /\ (threads[t].is_running /\ ~threads'[t].is_running) =>
                threads[t].stop_event /\ threads[t].at = "idle"
          /\ (threads[t].at # "stopped" /\ threads'[t].at = "stopped") =>
                threads[t].stop_event /\ threads[t].at = "idle"
          /\ threads[t].at = "claiming" =>
                threads'[t].at \in {"claiming", "processing", "sleeping"}
          /\ threads[t].at \in {"processing", "completing", "failing"} =>
                threads'[t].at \in {"processing", "completing", "failing",
                                    "idle", "sleeping"}
          /\ threads[t].at = "sleeping" =>
                threads'[t].at \in {"sleeping", "idle"}]_vars

\* a worker that has handled an event sleeps after an empty poll or an
\* error while another one has been stopped by its stop signal
C23_Witness ==
    \E t, u \in ThreadIds :
       /\ threads[t].at = "sleeping"
       /\ threads[t].is_running
       /\ ~threads[t].stop_event
       /\ threads[t].last_event_at # NULL
       /\ threads[u].at = "stopped"
       /\ threads[u].stop_event

\* ------------------------------------------------------------------- C24
\* the states of the claim's state machine: a sleeping worker is idle
Phase(at) == IF at = "sleeping" THEN "idle" ELSE at

\* C24: stop is cooperative.  A worker moves idle -> claiming ->
\* processing -> (completing | failing) -> idle, a claim without event
\* leading back to idle, and reaches stopped only from idle, with its
\* running flag cleared.
C24_CooperativeStop ==
    [][\A t \in ThreadIds :
          Phase(threads[t].at) # Phase(threads'[t].at) =>
             /\ <<Phase(threads[t].at), Phase(threads'[t].at)>> \in
                   {<<"started", "idle">>, <<"idle", "claiming">>,
                    <<"claiming", "processing">>, <<"claiming", "idle">>,
                    <<"processing", "completing">>,
                    <<"processing", "failing">>,
                    <<"completing", "idle">>, <<"failing", "idle">>,
                    <<"idle", "stopped">>}
             /\ threads'[t].at = "stopped" => ~threads'[t].is_running]_vars

\* ------------------------------------------------------------------- C25
\* C25: start() on a pool without workers creates and starts exactly size
\* workers, with pairwise distinct identities; start() on a pool that has
\* workers changes nothing.
C25_StartCreatesSizeWorkers ==
    [][nstarts' = nstarts + 1 =>
          IF workers # <<>>
          THEN workers' = workers /\ threads' = threads
          ELSE /\ Len(workers') = size
               /\ Len(threads') = Len(threads) + size
               /\ \A i \in 1 .. Len(threads) : threads'[i] = threads[i]
               /\ \A i \in 1 .. size :
                     /\ workers'[i] > Len(threads)
                     /\ workers'[i] \in 1 .. Len(threads')
                     /\ threads'[workers'[i]].at = "started"
               /\ \A i, j \in 1 .. size :
                     i # j =>
                        /\ workers'[i] # workers'[j]
                        /\ threads'[workers'[i]].worker_id
                              # threads'[workers'[j]].worker_id]_vars

\* start() has been called twice on a pool of two workers: the second
\* call found the workers of the first
C25_Witness ==
    /\ nstarts = 2
    /\ size = 2
    /\ Len(workers) = 2
    /\ Len(threads) = 2
    /\ threads[workers[1]].worker_id # threads[workers[2]].worker_id

\* ------------------------------------------------------------------- C26
\* C26: stop(timeout) sets the stop signal of every worker before it
\* waits on any, returns no later than timeout after it began (in total,
\* not per worker), and leaves a worker that is still alive at the
\* deadline as it is.
C26_StopWaitsTimeoutInTotal ==
    [][Joining =>
          /\ \A t \in PoolThreads : threads[t].stop_event
          /\ now - Head(stack).start_time <= Head(stack).timeout
          /\ stack' # stack =>
                /\ threads' = threads
                /\ now' = now
                /\ stack' = Tail(stack) => workers' = <<>>]_vars

\* stop(30) has returned after its 30 seconds while both workers, their
\* stop signal set, are still alive: the first in the processing
\* function, the second in its claim
C26_Witness ==
    /\ stack = <<>>
    /\ workers = <<>>
    /\ now = stop_timeout
    /\ Len(threads) = 2
    /\ \A t \in ThreadIds : threads[t].stop_event /\ threads[t].is_running
    /\ threads[1].at = "processing"
    /\ threads[2].at = "claiming"

\* ------------------------------------------------------------------- C27
\* C27: health_check() is true iff the pool has at least one worker and
\* every worker reports healthy; it is false for a pool that was never
\* started, has size 0 or has been stopped.
C27_HealthCheck ==
    /\ health_check <=> /\ Len(workers) >= 1
                        /\ \A i \in 1 .. Len(workers) : is_healthy(workers[i])
    /\ nstarts = 0 => ~health_check
    /\ size = 0 => ~health_check
    /\ (stack = <<>> /\ \A t \in ThreadIds : threads[t].stop_event)
          => ~health_check

\* a started pool of two workers reports healthy while a stopped pool
\* exists in the model's other states: here both workers run
C27_Witness ==
    /\ health_check
    /\ Len(workers) = 2
    /\ \E t \in PoolThreads : threads[t].last_event_at # NULL

\* ------------------------------------------------------------------- C28
\* C28: a worker is healthy iff its loop is running and, if it has ever
\* handled an event, the time since its last event is at most the stuck
\* threshold.
C28_HealthyIffRunningAndNotStuck ==
    \A t \in ThreadIds :
       is_healthy(t) <=>
          /\ threads[t].is_running
          /\ threads[t].last_event_at # NULL =>
                now - threads[t].last_event_at <= stuck_threshold


\* ------------------------------------------------------------------- C30
\* run_forever is in progress: in its loop, or in the stop() of its
\* finally block
RunForeverActive ==
    \E k \in 1 .. Len(stack) :
       stack[k].op = "run_forever" \/ stack[k].caller = "run_forever"

\* C30: run_forever does not return before a shutdown request has
\* arrived; once it has arrived run_forever eventually returns, with the
\* pool stopped; and the stop() of the signal handler together with the
\* stop() of run_forever's exit path stop each worker at most once.
C30_RunForever ==
    /\ [][(RunForeverActive /\ ~RunForeverActive') =>
             shutdown_requested /\ workers' = <<>>]_vars
    /\ [](\A t \in ThreadIds : threads[t].nstops <= 1)
    /\ (RunForeverActive /\ shutdown_requested) ~> ~RunForeverActive

\* a signal arrived while run_forever was waiting: the handler's stop()
\* has signalled both workers once and waits for the first one, which is
\* still in the processing function
C30_Witness ==
    /\ Len(stack) = 2
    /\ stack[1].caller = "_signal_handler"
    /\ stack[2].op = "run_forever"
    /\ shutdown_requested
    /\ Len(workers) = 2
    /\ \A t \in PoolThreads : threads[t].nstops = 1
    /\ threads[workers[1]].at = "processing"
    /\ now = stack[1].deadline


\* ------------------------------------------------------------------- C29
\* C29: in every state of the store queue_depth() is the number of
\* pending events, processing_count() the number of processing events
\* whose lease has not expired, and stats() gives the number of events of
\* each status and, as expired_processing, the number of processing events
\* whose lease has expired; a lease that ends at this very instant counts
\* as expired or as not expired, the same way for both numbers.
C29_Introspection ==
    /\ get_queue_depth = Cardinality({id \in Ids : events[id].status = "pending"})
    /\ \A s \in DOMAIN get_queue_stats \ {"expired_processing"} :
          get_queue_stats[s] = Cardinality({id \in Ids : events[id].status = s})
    /\ \E expired_at_deadline \in BOOLEAN :
          LET Expired(id) ==
                 /\ events[id].visibility_timeout # NULL
                 /\ \/ events[id].visibility_timeout < now
                    \/ /\ expired_at_deadline
                       /\ events[id].visibility_timeout = now
              Processing == {id \in Ids : events[id].status = "processing"}
          IN  /\ get_processing_count =
                    Cardinality({id \in Processing : ~Expired(id)})
              /\ get_queue_stats["expired_processing"] =
                    Cardinality({id \in Processing : Expired(id)})


\* ------------------------------------------------------------------- C31
\* C31: bounded concurrency.  At every instant at most size worker threads
\* created by the pool are alive, and at most size of them are handling
\* an event (past the claim, before the return of the report call).
C31_BoundedConcurrency ==
    /\ Cardinality({t \in ThreadIds : is_alive(t)}) <= size
    /\ Cardinality({t \in ThreadIds :
                       threads[t].at \in {"processing", "completing", "failing"}})
          <= size


\* ------------------------------------------------------------------- C32
\* C32: claims never block on each other.  While another worker's claim
\* has selected and locked an event and not committed yet, a worker's
\* claim can run at once (the cap on the number of claims aside), and it
\* returns the oldest eligible event that no claim in flight has locked,
\* or none when there is no such event.
C32_ClaimsDoNotBlock ==
    /\ [](\A w \in Workers :
             (/\ pc[w] = "poll"
              /\ \E v \in Workers \ {w} : pc[v] = "claiming"
              /\ Total(nclaims) < MaxClaims)
                => ENABLED (claim_event_execute(w) \/ claim_event_none(w)))
    /\ [][\A w \in Workers :
             (Claims(w) /\ \E v \in Workers \ {w} : pc[v] = "claiming") =>
                LET free == {id \in Ids : /\ Eligible(events[id], now)
                                          /\ ~Locked(id)}
                IN  IF free = {}
                    THEN pc'[w] = "sleeping"
                    ELSE /\ pc'[w] = "claiming"
                         /\ ev'[w] \in free
                         /\ \A other \in free :
                               events[ev'[w]].created_at
                                  <= events[other].created_at]_vars

\* both workers' claims are in flight at once: the second one selected the
\* newer event while the first held the lock of the older one
C32_Witness ==
    /\ Len(events) = 2
    /\ events[1].created_at < events[2].created_at
    /\ \E w, v \in Workers :
          /\ pc[w] = "claiming" /\ ev[w] = 1
          /\ pc[v] = "claiming" /\ ev[v] = 2
          /\ events[1].status = "pending"
          /\ events[2].status = "pending"


\* ------------------------------------------------------------------- C33
\* C33: processed_at is set once and only on a terminal transition: an
\* event that is pending or processing has no processed_at, and a
\* processed_at that is set never changes.
C33_ProcessedAtSetOnce ==
    /\ [](\A id \in Ids :
             events[id].status \in {"pending", "processing"} =>
                events[id].processed_at = NULL)
    /\ [][\A id \in Ids :
             events[id].processed_at # NULL =>
                events'[id].processed_at = events[id].processed_at]_vars


\* ------------------------------------------------------------------- C34
\* C34: claim tie-breaking is deterministic: in every state of the store
\* the event a claim returns is determined by that state, so the events a
\* claim may select are at most one, also when eligible events share
\* their created_at.
C34_TieBreakDeterministic ==
    \A id, other \in Oldest(Candidates) : id = other


\* ------------------------------------------------------------------- C35
\* C35: with every worker using the same max_retry_count, an event that is
\* pending or processing has retry_count < max_retry_count, and an event
\* is failed only with retry_count >= max_retry_count; so no event is
\* pending and yet never eligible for a claim.
C35_StatusRetryInvariant ==
    \A id \in Ids :
       /\ events[id].status \in {"pending", "processing"} =>
             events[id].retry_count < max_retry_count
       /\ events[id].status = "failed" =>
             events[id].retry_count >= max_retry_count


\* ------------------------------------------------------------------- C36
\* C36: an event that is processing has a visibility_timeout and a
\* claimed_by, and an event that is completed or failed has no
\* visibility_timeout.
C36_StatusLeaseInvariant ==
    \A id \in Ids :
       /\ events[id].status = "processing" =>
             /\ events[id].visibility_timeout # NULL
             /\ events[id].claimed_by # NULL
       /\ Terminal(events[id].status) =>
             events[id].visibility_timeout = NULL


\* ------------------------------------------------------------------- C38
\* the pool has workers, no call is in progress and stop has not been
\* called on them
Started ==
    /\ workers # <<>>
    /\ stack = <<>>
    /\ \A t \in PoolThreads : ~threads[t].stop_event

\* C38 as stated: once start() has returned on a pool of size >= 1, and
\* until stop is called, health_check() returns true.
C38_HealthyOnceStarted == Started => health_check

\* C38 amended: once start() has returned and every worker it started has
\* begun run(), and until stop is called, health_check() returns true;
\* while a started worker has not begun run() it returns false.
C38_HealthyOnceRunning ==
    Started =>
       (health_check <=> \A t \in PoolThreads : threads[t].at # "started")

\* both workers of a started pool have begun run() and one of them is
\* handling an event: the pool reports healthy
C38_Witness ==
    /\ Started
    /\ Len(workers) = 2
    /\ health_check
    /\ \A t \in PoolThreads : threads[t].at # "started"
    /\ \E t \in PoolThreads : threads[t].at = "completing"

\* ------------------------------------------------------------------- C39
\* worker thread t's call of claim_event returns in this step
ThreadClaims(t) ==
    threads[t].at = "claiming" /\ threads'[t].at # "claiming"

\* C39 as stated: a worker issues no claim after its stop signal has been
\* set.
C39_NoClaimAfterStop ==
    [][\A t \in ThreadIds : ThreadClaims(t) => ~threads[t].stop_event]_vars

\* C39 amended: a worker enters an iteration, and issues its claim, only
\* after reading its stop signal unset at the loop condition; a worker
\* that reads the loop condition after the signal was set issues no
\* further claim and stops.
C39_NoClaimAfterStopObserved ==
    [][\A t \in ThreadIds :
          /\ (threads[t].at # "claiming" /\ threads'[t].at = "claiming") =>
                threads[t].at = "idle" /\ ~threads[t].stop_event
          /\ (threads[t].at = "idle" /\ threads[t].stop_event) =>
                threads'[t].at \in {"idle", "stopped"}]_vars

\* the stop signal was set between the loop condition and the claim: the
\* worker is handling the event that this claim returned, while stop()
\* waits for it
C39_Witness ==
    /\ Joining
    /\ now = 0
    /\ \E t \in PoolThreads :
          /\ Head(stack).joining = t
          /\ threads[t].stop_event
          /\ threads[t].at = "processing"
          /\ threads[t].last_event_at = 0


\* ------------------------------------------------------------------- C37
\* worker thread t leaves _process_event in this step
EventHandled(t) ==
    /\ threads[t].at \in {"completing", "failing"}
    /\ threads'[t].at \notin {"completing", "failing"}

\* C37: counter accuracy.  Each event a worker has claimed increments
\* exactly one of its counters when its handling ends: events_processed
\* if and only if its complete call returned true, events_failed if and
\* only if its processing raised; no other step changes a counter, and
\* the pool's totals are the sums of its workers' counters.
C37_CounterAccuracy ==
    /\ [](LET W == 1 .. Len(workers)
          IN  /\ get_stats.total_events_processed =
                    Sum([i \in W |-> get_stats.workers[i].events_processed], W)
              /\ get_stats.total_events_failed =
                    Sum([i \in W |-> get_stats.workers[i].events_failed], W))
    /\ [][\A t \in ThreadIds :
             LET processed == threads'[t].events_processed - threads[t].events_processed
                 failed == threads'[t].events_failed - threads[t].events_failed
             IN  /\ processed =
                       IF EventHandled(t) /\ threads[t].returned = "True"
                       THEN 1 ELSE 0
                 /\ failed =
                       IF EventHandled(t) /\ threads[t].raised = "process_func"
                       THEN 1 ELSE 0
                 /\ EventHandled(t) => processed + failed = 1]_vars

====
